---------------------------- MODULE Spec2Model ----------------------------
(*
  A model of the two greedy constructors of scripts/optimizers:
  DeliveryRouter (delivery_router.py) and ProductionScheduler
  (production_scheduler.py), and of Location.distance_to.

  Units.  Python computes with floats and datetimes; the model keeps the
  same quantities as integers in fixed units:
    - latitude / longitude : tenths of a degree        (37.2 -> 372)
    - distance             : tenths of a kilometre     (10.0 km -> 100)
    - route time           : hours * TimeScale         (TimeScale = 400)
    - route cost           : won * TimeScale
    - schedule time        : seconds after 00:00 of the target date
  The great-circle value of the haversine formula is tabulated at the
  sample coordinates (HaversineTable, values produced by the source formula
  and rounded to 0.1 km); the branch that decides between the fallback and
  the formula is modelled as written.

  One run of the model is one use of the library; `mode` is "none" until
  an object is constructed, and then
    "plan"      a DeliveryRouter was constructed; it is given shipments and
                create_plan is called;
    "schedule"  a ProductionScheduler was constructed; it is given orders
                and create_schedule is called;
    "distance"  two Locations were constructed and distance_to is evaluated;
    "setup"     calculate_setup_time is evaluated on two colours;
    "invoke"    FactorySupervisorAgent.invoke runs the two sub-agents, whose
                routing call and scheduling call take their steps in any
                order.
  A router (scheduler) whose call has returned may be followed by a second
  one constructed with the same arguments and given the same input (`run`),
  and a returned result may be passed through the optimize pass (`passes`).
*)
EXTENDS Integers, Sequences, FiniteSets, TLC

VARIABLES
    mode,               \* which entry point this run exercises
    run,                \* 1 for the first router / scheduler, 2 for the second
    first_result,       \* what the first one returned, <<>> before that
    passes,             \* optimize passes applied to the returned result
    \* ---- DeliveryRouter ----
    depot,              \* self.depot
    vehicles,           \* self.vehicles (dict, in insertion order)
    shipments,          \* self.shipments
    pc,                 \* position inside create_plan / nearest_neighbor
    remaining,          \* create_plan: remaining
    vqueue,             \* create_plan: vehicles the for-loop has not reached yet
    routes,             \* plan.routes
    unassigned,         \* plan.unassigned
    route,              \* nearest_neighbor: route
    nn_remaining,       \* nearest_neighbor: remaining
    current_location,   \* nearest_neighbor: current_location
    vehicle,            \* nearest_neighbor: vehicle
    \* ---- ProductionScheduler ----
    machines,           \* self.machines
    orders,             \* self.orders
    s_pc,               \* position inside create_schedule
    machine_states,     \* create_schedule: machine_states
    sorted_orders,      \* create_schedule: orders the for-loop has not reached yet
    slots,              \* schedule.slots
    unscheduled_orders, \* schedule.unscheduled_orders
    unscheduled_cause,  \* history: the branch that rejected each unscheduled order
    \* ---- Location.distance_to ----
    loc_a, loc_b,       \* self, other
    dist_result,        \* <<the returned distance>>, or NoResult
    \* ---- ProductionScheduler.calculate_setup_time ----
    arg_from_color,     \* from_color
    arg_to_color,       \* to_color
    setup_result,       \* <<the returned minutes>>, or NoResult
    \* ---- FactorySupervisorAgent.invoke ----
    sup_pc,             \* position inside invoke
    sup_mode,           \* input_data['mode']
    sub_status,         \* each sub-agent: not named, named, executing, or the
                        \* status of the SubAgentResult it returned
    response,           \* the AgentResponse invoke returned, or NoResponse
    \* ---- constructor arguments ----
    arg_vehicles,       \* the `vehicles` argument of DeliveryRouter(...)
    arg_machines        \* the `machines` argument of ProductionScheduler(...)

routerVars == <<depot, vehicles, shipments, pc, remaining, vqueue, routes,
                unassigned, route, nn_remaining, current_location, vehicle>>
schedVars == <<machines, orders, s_pc, machine_states, sorted_orders, slots,
               unscheduled_orders, unscheduled_cause>>
distVars == <<loc_a, loc_b, dist_result>>
setupVars == <<arg_from_color, arg_to_color, setup_result>>
callVars == <<run, first_result, passes>>
supVars == <<sup_pc, sup_mode, sub_status, response>>
argVars == <<arg_vehicles, arg_machines>>
vars == <<mode, callVars, routerVars, schedVars, distVars, setupVars, supVars,
          argVars>>

\* a step of one entry point leaves the state of the others alone
RouterFrame == UNCHANGED <<mode, callVars, schedVars, distVars, setupVars, supVars, argVars>>
SchedFrame == UNCHANGED <<mode, callVars, routerVars, distVars, setupVars, supVars, argVars>>
DistFrame == UNCHANGED <<mode, callVars, routerVars, schedVars, setupVars, supVars, argVars>>
SetupFrame == UNCHANGED <<mode, callVars, routerVars, schedVars, distVars, supVars, argVars>>

-----------------------------------------------------------------------------
(* Bounds of the model *)

MaxShipments == 3
MaxOrders == 3
MaxPasses == 2

-----------------------------------------------------------------------------
(* Sequence helpers: Python list primitives *)

Range(s) == {s[i] : i \in DOMAIN s}

\* list.remove(x): drops the first element equal to x
Remove(s, x) ==
    LET i == CHOOSE k \in DOMAIN s : s[k] = x /\ \A j \in 1..(k - 1) : s[j] # x
    IN  SubSeq(s, 1, i - 1) \o SubSeq(s, i + 1, Len(s))

Count(s, x) == Cardinality({i \in DOMAIN s : s[i] = x})

RECURSIVE Concat(_)
Concat(ss) == IF ss = <<>> THEN <<>> ELSE Head(ss) \o Concat(Tail(ss))

RECURSIVE SumSeq(_)
SumSeq(s) == IF s = <<>> THEN 0 ELSE Head(s) + SumSeq(Tail(s))

-----------------------------------------------------------------------------
(* Location.distance_to *)

Loc(la, lo) == [lat |-> la, lon |-> lo]

DEPOT == Loc(372, 1270)

\* The fixed distance returned when a coordinate is missing: 10.0 km
FALLBACK_DISTANCE == 100

\* R * 2 asin(sqrt(a)) of lines 43-53 at the sample coordinates, in 0.1 km
HaversineTable ==
    <<0, 0, 0, 0>> :> 0 @@ <<0, 0, 0, 1270>> :> 141218 @@ <<0, 0, 374, 0>> :> 41587 @@ <<0, 0, 372, 1270>> :> 131926
    @@ <<0, 0, 374, 1271>> :> 131914 @@ <<0, 0, 372, 1272>> :> 132087 @@ <<0, 0, 373, 1270>> :> 131880
    @@ <<0, 1270, 0, 0>> :> 141218 @@ <<0, 1270, 0, 1270>> :> 0 @@ <<0, 1270, 374, 0>> :> 131834 @@ <<0, 1270, 372, 1270>> :> 41365
    @@ <<0, 1270, 374, 1271>> :> 41587 @@ <<0, 1270, 372, 1272>> :> 41365 @@ <<0, 1270, 373, 1270>> :> 41476
    @@ <<374, 0, 0, 0>> :> 41587 @@ <<374, 0, 0, 1270>> :> 131834 @@ <<374, 0, 374, 0>> :> 0 @@ <<374, 0, 372, 1270>> :> 100942
    @@ <<374, 0, 374, 1271>> :> 100826 @@ <<374, 0, 372, 1272>> :> 101054 @@ <<374, 0, 373, 1270>> :> 100856
    @@ <<372, 1270, 0, 0>> :> 131926 @@ <<372, 1270, 0, 1270>> :> 41365 @@ <<372, 1270, 374, 0>> :> 100942 @@ <<372, 1270, 372, 1270>> :> 0
    @@ <<372, 1270, 374, 1271>> :> 239 @@ <<372, 1270, 372, 1272>> :> 177 @@ <<372, 1270, 373, 1270>> :> 111
    @@ <<374, 1271, 0, 0>> :> 131914 @@ <<374, 1271, 0, 1270>> :> 41587 @@ <<374, 1271, 374, 0>> :> 100826 @@ <<374, 1271, 372, 1270>> :> 239
    @@ <<374, 1271, 374, 1271>> :> 0 @@ <<374, 1271, 372, 1272>> :> 239 @@ <<374, 1271, 373, 1270>> :> 142
    @@ <<372, 1272, 0, 0>> :> 132087 @@ <<372, 1272, 0, 1270>> :> 41365 @@ <<372, 1272, 374, 0>> :> 101054 @@ <<372, 1272, 372, 1270>> :> 177
    @@ <<372, 1272, 374, 1271>> :> 239 @@ <<372, 1272, 372, 1272>> :> 0 @@ <<372, 1272, 373, 1270>> :> 209
    @@ <<373, 1270, 0, 0>> :> 131880 @@ <<373, 1270, 0, 1270>> :> 41476 @@ <<373, 1270, 374, 0>> :> 100856 @@ <<373, 1270, 372, 1270>> :> 111
    @@ <<373, 1270, 374, 1271>> :> 142 @@ <<373, 1270, 372, 1272>> :> 209 @@ <<373, 1270, 373, 1270>> :> 0

Haversine(a, b) == HaversineTable[<<a.lat, a.lon, b.lat, b.lon>>]

\* if self.lat == 0 or other.lat == 0
CoordinateMissing(self, other) == self.lat = 0 \/ other.lat = 0

distance_to(self, other) ==
    IF CoordinateMissing(self, other) THEN FALLBACK_DISTANCE
    ELSE Haversine(self, other)

\* The sample coordinates: no coordinates at all, latitude 0 only (a point
\* on the equator), longitude 0 only (a point on the prime meridian), the
\* depot, and three customers near it.
Locations ==
    {Loc(0, 0), Loc(0, 1270), Loc(374, 0), DEPOT,
     Loc(374, 1271), Loc(372, 1272), Loc(373, 1270)}

\* dist_result before the call returns; <<d>> afterwards
NoResult == <<>>

-----------------------------------------------------------------------------
(* delivery_router.py: data and configuration *)

Veh(id, kg, pal, perKm, rate, fixed, avail) ==
    [vehicle_id |-> id, capacity_kg |-> kg, capacity_pallets |-> pal,
     cost_per_km |-> perKm, hourly_rate |-> rate, fixed_cost |-> fixed,
     available |-> avail]

\* The module-level default fleet, in dict insertion order
VEHICLES ==
    << Veh("V1", 5000, 10, 200, 15000, 50000, TRUE),
       Veh("V2", 5000, 10, 200, 15000, 50000, TRUE),
       Veh("V3", 11000, 20, 350, 18000, 80000, TRUE) >>

AVERAGE_SPEED == 40
UNLOAD_TIME_MIN == 15

\* hours are kept as hours * TimeScale, won as won * TimeScale
TimeScale == 10 * AVERAGE_SPEED

Ship(id, kg, pal, tw, loc) ==
    [shipment_id |-> id, weight_kg |-> kg, pallets |-> pal,
     time_window |-> tw, location |-> loc]

\* The shipments an input list is drawn from (a list may repeat a row)
ShipmentPool ==
    { Ship("S1", 2000, 3, "AM", Loc(0, 0)),
      Ship("S2", 6000, 1, "PM", Loc(0, 0)),
      Ship("S3", 3000, 2, "ANY", Loc(372, 1272)),
      Ship("S4", 500, 7, "ANY", Loc(374, 1271)),
      Ship("S5", 0, 0, "AM", Loc(373, 1270)) }

\* The `vehicles` argument of DeliveryRouter(...): <<>> is the empty dict {};
\* an omitted argument (None) takes the same branch of `vehicles or VEHICLES`
\* and gives the same router
FleetArgs ==
    { <<>>,
      << Veh("T1", 5000, 10, 300, 20000, 60000, TRUE) >>,
      << Veh("V1", 3000, 5, 100, 10000, 30000, TRUE),
         Veh("V2", 5000, 10, 200, 15000, 50000, FALSE) >>,
      << Veh("V9", 5000, 10, 200, 15000, 50000, FALSE) >> }

EmptyRoute(vid) ==
    [vehicle_id |-> vid, stops |-> <<>>, total_distance_km |-> 0,
     total_weight_kg |-> 0, total_pallets |-> 0, estimated_time_hours |-> 0]

NoVehicle == Veh("", 0, 0, 0, 0, 0, FALSE)


\* The `depot` argument of DeliveryRouter(...): DEPOT stands for None too
DepotArgs == {DEPOT, Loc(0, 0)}

-----------------------------------------------------------------------------
(* delivery_router.py: pure parts *)

\* dict.get(vehicle_id) on a fleet; NoVehicle stands for None
VehiclesGet(fleet, id) ==
    IF \E i \in DOMAIN fleet : fleet[i].vehicle_id = id
    THEN fleet[CHOOSE i \in DOMAIN fleet : fleet[i].vehicle_id = id]
    ELSE NoVehicle

\* Route.cost, in won * TimeScale
cost(rt) ==
    LET v == VehiclesGet(VEHICLES, rt.vehicle_id)
    IN  IF v = NoVehicle THEN 0
        ELSE rt.total_distance_km * AVERAGE_SPEED * v.cost_per_km
             + rt.estimated_time_hours * v.hourly_rate
             + (IF rt.stops # <<>> THEN v.fixed_cost ELSE 0) * TimeScale

\* RoutePlan.summary (the counts)
summary(rs, un) ==
    [total_shipments |-> SumSeq([i \in DOMAIN rs |-> Len(rs[i].stops)]),
     unassigned_shipments |-> Len(un),
     vehicles_used |-> Cardinality({i \in DOMAIN rs : rs[i].stops # <<>>})]

\* key=lambda s: (0 if AM else (1 if PM else 2), -s.weight_kg)
TimeWindowRank(s) ==
    IF s.time_window = "AM" THEN 0 ELSE (IF s.time_window = "PM" THEN 1 ELSE 2)

ShipmentKeyLE(a, b) ==
    \/ TimeWindowRank(a) < TimeWindowRank(b)
    \/ /\ TimeWindowRank(a) = TimeWindowRank(b)
       /\ (0 - a.weight_kg) <= (0 - b.weight_kg)

\* sorted(...) is stable: an element goes after every element whose key is
\* not greater
RECURSIVE InsertShipment(_, _)
InsertShipment(x, s) ==
    IF s = <<>> THEN <<x>>
    ELSE IF ShipmentKeyLE(Head(s), x)
         THEN <<Head(s)>> \o InsertShipment(x, Tail(s))
         ELSE <<x>> \o s

RECURSIVE SortShipments(_)
SortShipments(s) ==
    IF s = <<>> THEN <<>>
    ELSE InsertShipment(s[Len(s)], SortShipments(SubSeq(s, 1, Len(s) - 1)))

\* faulty variant: the smallest vehicle comes first
VehicleKeyLEAscending(a, b) == a.capacity_kg <= b.capacity_kg

\* key=lambda x: -x[1].capacity_kg
VehicleKeyLE(a, b) == (0 - a.capacity_kg) <= (0 - b.capacity_kg)

RECURSIVE InsertVehicle(_, _)
InsertVehicle(x, s) ==
    IF s = <<>> THEN <<x>>
    ELSE IF VehicleKeyLE(Head(s), x)
         THEN <<Head(s)>> \o InsertVehicle(x, Tail(s))
         ELSE <<x>> \o s

RECURSIVE SortVehicles(_)
SortVehicles(s) ==
    IF s = <<>> THEN <<>>
    ELSE InsertVehicle(s[Len(s)], SortVehicles(SubSeq(s, 1, Len(s) - 1)))

\* faulty variant: the pallet limit is not checked
FitsWeightOnly(s, rt, v) == rt.total_weight_kg + s.weight_kg <= v.capacity_kg

\* faulty variant: a shipment that fills the vehicle exactly is turned away
FitsStrict(s, rt, v) ==
    /\ rt.total_weight_kg + s.weight_kg < v.capacity_kg
    /\ rt.total_pallets + s.pallets < v.capacity_pallets

\* the filter of the list comprehension at lines 196-200
Fits(s, rt, v) ==
    /\ rt.total_weight_kg + s.weight_kg <= v.capacity_kg
    /\ rt.total_pallets + s.pallets <= v.capacity_pallets

Feasible(rem, rt, v) == SelectSeq(rem, LAMBDA s : Fits(s, rt, v))

\* faulty variant: the loop does not stop when nothing fits
LoopBreakNever(feasible) == FALSE

\* if not feasible: break
LoopBreak(feasible) == feasible = <<>>

\* faulty variant: the choice among the candidates depends on which router
\* object is asked (as iteration over an unordered collection would)
NearestByObject(feasible, loc) ==
    LET d(i) == distance_to(loc, feasible[i].location)
        least == {i \in DOMAIN feasible : \A j \in DOMAIN feasible : d(i) <= d(j)}
        i0 == CHOOSE i \in least :
                  \A j \in least : IF run = 1 THEN i <= j ELSE i >= j
    IN  feasible[i0]

\* faulty variant: a later candidate replaces an equally near earlier one
\* (<= in place of <)
NearestLast(feasible, loc) ==
    LET d(i) == distance_to(loc, feasible[i].location)
        i0 == CHOOSE i \in DOMAIN feasible :
                  /\ \A j \in DOMAIN feasible : d(i) <= d(j)
                  /\ \A j \in DOMAIN feasible : j > i => d(j) > d(i)
    IN  feasible[i0]

\* min(feasible, key=distance from loc): the first element of least distance
Nearest(feasible, loc) ==
    LET d(i) == distance_to(loc, feasible[i].location)
        i0 == CHOOSE i \in DOMAIN feasible :
                  /\ \A j \in DOMAIN feasible : d(i) <= d(j)
                  /\ \A j \in 1..(i - 1) : d(j) > d(i)
    IN  feasible[i0]

\* faulty variant: the new stop is put in front of the stops made before
AppendStopInFront(rt, nearest, loc) ==
    [rt EXCEPT !.stops = <<nearest>> \o @,
               !.total_weight_kg = @ + nearest.weight_kg,
               !.total_pallets = @ + nearest.pallets,
               !.total_distance_km = @ + distance_to(loc, nearest.location)]

\* lines 207-210: the route after `nearest` is appended
AppendStop(rt, nearest, loc) ==
    [rt EXCEPT !.stops = Append(@, nearest),
               !.total_weight_kg = @ + nearest.weight_kg,
               !.total_pallets = @ + nearest.pallets,
               !.total_distance_km = @ + distance_to(loc, nearest.location)]

\* faulty variant: the leg back to the depot is not added
CloseRouteOneWay(rt, loc, dep) ==
    IF rt.stops # <<>>
    THEN [rt EXCEPT !.estimated_time_hours =
                        rt.total_distance_km
                        + (Len(rt.stops) * UNLOAD_TIME_MIN * TimeScale) \div 60]
    ELSE rt

\* lines 216-221: the return leg and the elapsed time
CloseRoute(rt, loc, dep) ==
    IF rt.stops # <<>>
    THEN LET dist == rt.total_distance_km + distance_to(loc, dep)
         IN  [rt EXCEPT !.total_distance_km = dist,
                        !.estimated_time_hours =
                            dist + (Len(rt.stops) * UNLOAD_TIME_MIN * TimeScale) \div 60]
    ELSE rt

\* faulty variant: every row equal to a stop is dropped from the pool, not one per stop
RemoveStopsAllEqual(rem, stops) == SelectSeq(rem, LAMBDA s : s \notin Range(stops))

\* lines 259-261: for stop in route.stops: if stop in remaining: remove
RECURSIVE RemoveStops(_, _)
RemoveStops(rem, stops) ==
    IF stops = <<>> THEN rem
    ELSE RemoveStops(IF \E i \in DOMAIN rem : rem[i] = Head(stops)
                     THEN Remove(rem, Head(stops)) ELSE rem,
                     Tail(stops))

\* a RoutePlan: the fields create_plan fills
Plan(rs, un) == [routes |-> rs, unassigned |-> un]

\* faulty variant: the pass turns every route around (a 2-opt move)
OptimizePlanReversing(plan) ==
    [plan EXCEPT !.routes =
        [r \in DOMAIN plan.routes |->
            [plan.routes[r] EXCEPT !.stops =
                [i \in DOMAIN plan.routes[r].stops |->
                    plan.routes[r].stops[Len(plan.routes[r].stops) + 1 - i]]]]]

\* optimize_plan, lines 268-276: return plan
optimize_plan(plan) == plan

-----------------------------------------------------------------------------
(* DeliveryRouter: construction, add_shipments, create_plan *)

\* create_plan is called on a router of its own, or by the delivery
\* sub-agent inside FactorySupervisorAgent.invoke
Routing == mode \in {"plan", "invoke"}

RouterIdle ==
    /\ depot = DEPOT /\ vehicles = <<>> /\ shipments = <<>> /\ pc = "off"
    /\ remaining = <<>> /\ vqueue = <<>> /\ routes = <<>> /\ unassigned = <<>>
    /\ route = EmptyRoute("") /\ nn_remaining = <<>>
    /\ current_location = DEPOT /\ vehicle = NoVehicle

\* DeliveryRouter(depot, vehicles), lines 164-167
NewDeliveryRouter ==
    /\ mode = "none"
    /\ mode' = "plan"
    /\ depot' \in DepotArgs
    /\ \E arg \in FleetArgs :
          /\ arg_vehicles' = arg
          /\ vehicles' = (IF arg = <<>> THEN VEHICLES ELSE arg)
    /\ shipments' = <<>>
    /\ pc' = "idle"
    /\ UNCHANGED <<remaining, vqueue, routes, unassigned, route, nn_remaining,
                   current_location, vehicle>>
    /\ UNCHANGED <<callVars, schedVars, distVars, setupVars, supVars, arg_machines>>

\* add_shipments([s]), lines 169-171; longer lists are added row by row
\* (to the first router: the second one is given the first one's list)
add_shipments ==
    /\ mode = "plan" /\ pc = "idle" /\ run = 1
    /\ Len(shipments) < MaxShipments
    /\ \E s \in ShipmentPool : shipments' = Append(shipments, s)
    /\ UNCHANGED <<depot, vehicles, pc, remaining, vqueue, routes, unassigned,
                   route, nn_remaining, current_location, vehicle>>
    /\ RouterFrame

\* create_plan, lines 233-250: sort the shipments, order the vehicles
CreatePlanStart ==
    /\ Routing /\ pc = "idle"
    /\ routes' = <<>>
    /\ remaining' = SortShipments(shipments)
    /\ vqueue' = SortVehicles(vehicles)
    /\ pc' = "vehicles"
    /\ UNCHANGED <<depot, vehicles, shipments, unassigned, route, nn_remaining,
                   current_location, vehicle>>
    /\ RouterFrame

\* lines 251-252: if not vehicle.available or not remaining: continue
VehicleSkip ==
    /\ Routing /\ pc = "vehicles" /\ vqueue # <<>>
    /\ (~Head(vqueue).available \/ remaining = <<>>)
    /\ vqueue' = Tail(vqueue)
    /\ UNCHANGED <<depot, vehicles, shipments, pc, remaining, routes, unassigned,
                   route, nn_remaining, current_location, vehicle>>
    /\ RouterFrame

\* line 254 and lines 190-192: nearest_neighbor is entered
NearestNeighborStart ==
    /\ Routing /\ pc = "vehicles" /\ vqueue # <<>>
    /\ Head(vqueue).available /\ remaining # <<>>
    /\ vehicle' = Head(vqueue)
    /\ route' = EmptyRoute(Head(vqueue).vehicle_id)
    /\ nn_remaining' = remaining
    /\ current_location' = depot
    /\ pc' = "nn"
    /\ UNCHANGED <<depot, vehicles, shipments, remaining, vqueue, routes, unassigned>>
    /\ RouterFrame

\* lines 194-213: one iteration of the while loop that extends the route.
\* min() raises on an empty sequence.
NearestNeighborStep ==
    /\ Routing /\ pc = "nn"
    /\ nn_remaining # <<>>
    /\ LET feasible == Feasible(nn_remaining, route, vehicle)
       IN  /\ ~LoopBreak(feasible)
           /\ IF feasible = <<>>
              THEN /\ pc' = "error"
                   /\ UNCHANGED <<route, nn_remaining, current_location>>
              ELSE LET nearest == Nearest(feasible, current_location)
                   IN  /\ route' = AppendStop(route, nearest, current_location)
                       /\ current_location' = nearest.location
                       /\ nn_remaining' = Remove(nn_remaining, nearest)
                       /\ pc' = "nn"
    /\ UNCHANGED <<depot, vehicles, shipments, remaining, vqueue, routes, unassigned,
                   vehicle>>
    /\ RouterFrame

\* the loop ends (lines 194, 202-203); lines 215-223 close the route and
\* lines 256-261 of create_plan keep it and shrink the pool
NearestNeighborReturn ==
    /\ Routing /\ pc = "nn"
    /\ (nn_remaining = <<>> \/ LoopBreak(Feasible(nn_remaining, route, vehicle)))
    /\ LET closed == CloseRoute(route, current_location, depot)
       IN  /\ route' = closed
           /\ IF closed.stops # <<>>
              THEN /\ routes' = Append(routes, closed)
                   /\ remaining' = RemoveStops(remaining, closed.stops)
              ELSE UNCHANGED <<routes, remaining>>
    /\ vqueue' = Tail(vqueue)
    /\ pc' = "vehicles"
    /\ UNCHANGED <<depot, vehicles, shipments, unassigned, nn_remaining,
                   current_location, vehicle>>
    /\ RouterFrame

\* lines 263-266: plan.unassigned = remaining; return plan
CreatePlanReturn ==
    /\ Routing /\ pc = "vehicles" /\ vqueue = <<>>
    /\ unassigned' = remaining
    /\ pc' = "done"
    /\ UNCHANGED <<depot, vehicles, shipments, remaining, vqueue, routes, route,
                   nn_remaining, current_location, vehicle>>
    /\ RouterFrame

\* the steps of one call of create_plan
CreatePlanNext ==
    \/ CreatePlanStart
    \/ VehicleSkip
    \/ NearestNeighborStart
    \/ NearestNeighborStep
    \/ NearestNeighborReturn
    \/ CreatePlanReturn

\* optimize_plan(plan) on the plan create_plan returned
OptimizePlan ==
    /\ mode = "plan" /\ pc = "done"
    /\ passes < MaxPasses
    /\ LET plan == optimize_plan(Plan(routes, unassigned))
       IN  routes' = plan.routes /\ unassigned' = plan.unassigned
    /\ passes' = passes + 1
    /\ UNCHANGED <<depot, vehicles, shipments, pc, remaining, vqueue, route,
                   nn_remaining, current_location, vehicle>>
    /\ UNCHANGED <<mode, run, first_result, schedVars, distVars, setupVars, supVars, argVars>>

\* a second DeliveryRouter(depot, vehicles) with the arguments of the first,
\* and add_shipments with the first one's list; the first plan is kept.
\* A second create_plan on the first router is the same step: the call
\* starts from the fields as they are and sets up its locals anew.
SecondRouter ==
    /\ mode = "plan" /\ pc = "done" /\ run = 1
    /\ run' = 2
    /\ first_result' = Plan(routes, unassigned)
    /\ passes' = 0
    /\ pc' = "idle"
    /\ remaining' = <<>> /\ vqueue' = <<>> /\ routes' = <<>> /\ unassigned' = <<>>
    /\ route' = EmptyRoute("") /\ nn_remaining' = <<>>
    /\ current_location' = DEPOT /\ vehicle' = NoVehicle
    /\ UNCHANGED <<depot, vehicles, shipments>>
    /\ UNCHANGED <<mode, schedVars, distVars, setupVars, supVars, argVars>>

RouterNext ==
    \/ NewDeliveryRouter \/ add_shipments \/ CreatePlanNext
    \/ OptimizePlan \/ SecondRouter

-----------------------------------------------------------------------------
(* production_scheduler.py: data and configuration *)

Mach(id, wmin, wmax, speed, items, avail, setup) ==
    [machine_id |-> id, width_min |-> wmin, width_max |-> wmax,
     speed_m_per_min |-> speed, max_items_per_cycle |-> items,
     available |-> avail, current_setup |-> setup]

\* current_setup = "" stands for None
MACHINES ==
    << Mach("M1", 400, 600, 30, 4, TRUE, ""),
       Mach("M2", 500, 800, 30, 4, TRUE, ""),
       Mach("M3", 700, 1200, 30, 4, TRUE, "") >>

NoMachine == Mach("", 0, 0, 0, 0, FALSE, "")

SETUP_TIME_MATRIX ==
    <<"CLEAR", "CLEAR">> :> 10 @@ <<"CLEAR", "COLOR">> :> 30
    @@ <<"COLOR", "CLEAR">> :> 45 @@ <<"COLOR", "COLOR">> :> 20

WORK_START_HOUR == 8
WORK_END_HOUR == 20
METERS_PER_ROLL == 1000

Ord(id, width, rolls, due, col, prio) ==
    [order_id |-> id, width_mm |-> width, quantity_rolls |-> rolls,
     due_date |-> due, color |-> col, priority |-> prio]

\* The orders an input list is drawn from (a list may repeat a row);
\* due_date is a day number
OrderPool ==
    { Ord("O1", 500, 10, 1, "CLEAR", 2),
      Ord("O2", 650, 12, 1, "COLOR", 1),
      Ord("O3", 300, 4, 2, "CLEAR", 1),
      Ord("O4", 500, 22, 1, "COLOR", 3),
      Ord("O5", 650, 10, 2, "CLEAR", 1),
      Ord("O6", 1200, 4, 1, "BLACK", 1) }

\* The `machines` argument of ProductionScheduler(...): <<>> is the empty
\* list []; an omitted argument (None) takes the same branch of
\* `machines or MACHINES` and gives the same scheduler
MachineArgs ==
    { <<>>,
      << Mach("M1", 400, 600, 30, 1, TRUE, "COLOR"),
         Mach("M2", 500, 800, 50, 2, TRUE, "") >>,
      << Mach("M1", 400, 600, 30, 4, FALSE, ""),
         Mach("M2", 500, 800, 30, 1, TRUE, "CLEAR") >> }

-----------------------------------------------------------------------------
(* production_scheduler.py: pure parts *)

\* datetime.combine(target_date, hour=WORK_START_HOUR), in seconds
WorkStart == WORK_START_HOUR * 3600
\* datetime.combine(target_date, hour=WORK_END_HOUR), in seconds
WorkEnd == WORK_END_HOUR * 3600

\* faulty variant: the availability of the machine is not looked at
CompatibleAnyMachine(m, order) ==
    m.width_min <= order.width_mm /\ order.width_mm <= m.width_max

\* m.available and m.width_min <= order.width_mm <= m.width_max
Compatible(m, order) ==
    m.available /\ m.width_min <= order.width_mm /\ order.width_mm <= m.width_max

get_compatible_machines(ms, order) == SelectSeq(ms, LAMBDA m : Compatible(m, order))

\* faulty variant: the table is read as if it were symmetric
SetupTimeSymmetric(from_color, to_color) ==
    IF <<from_color, to_color>> \in DOMAIN SETUP_TIME_MATRIX
    THEN SETUP_TIME_MATRIX[<<IF from_color = to_color THEN from_color ELSE "CLEAR",
                             IF from_color = to_color THEN to_color ELSE "COLOR">>]
    ELSE 30

\* SETUP_TIME_MATRIX.get((from_color, to_color), 30), in minutes
calculate_setup_time(from_color, to_color) ==
    IF <<from_color, to_color>> \in DOMAIN SETUP_TIME_MATRIX
    THEN SETUP_TIME_MATRIX[<<from_color, to_color>>]
    ELSE 30

\* estimate_production_time, in seconds (hours * 3600)
estimate_production_time(order, m) ==
    (order.quantity_rolls * METERS_PER_ROLL * 60) \div m.speed_m_per_min

\* key=lambda o: (-o.priority, o.due_date, 0 if o.color == "CLEAR" else 1)
ColorRank(o) == IF o.color = "CLEAR" THEN 0 ELSE 1

\* faulty variant: the orders are compared by priority alone
OrderKeyLEPriorityOnly(a, b) == (0 - a.priority) <= (0 - b.priority)

OrderKeyLE(a, b) ==
    \/ (0 - a.priority) < (0 - b.priority)
    \/ /\ a.priority = b.priority
       /\ \/ a.due_date < b.due_date
          \/ /\ a.due_date = b.due_date
             /\ ColorRank(a) <= ColorRank(b)

RECURSIVE InsertOrder(_, _)
InsertOrder(x, s) ==
    IF s = <<>> THEN <<x>>
    ELSE IF OrderKeyLE(Head(s), x)
         THEN <<Head(s)>> \o InsertOrder(x, Tail(s))
         ELSE <<x>> \o s

RECURSIVE sort_orders_for_scheduling(_)
sort_orders_for_scheduling(s) ==
    IF s = <<>> THEN <<>>
    ELSE InsertOrder(s[Len(s)],
                     sort_orders_for_scheduling(SubSeq(s, 1, Len(s) - 1)))

\* faulty variant: every machine starts in CLEAR, whatever it carried over
InitialStatesClear(ms) ==
    [id \in {ms[i].machine_id : i \in DOMAIN ms} |->
        [current_time |-> WorkStart, current_color |-> "CLEAR", orders_today |-> <<>>]]

\* lines 193-200: one cursor per machine
InitialStates(ms) ==
    [id \in {ms[i].machine_id : i \in DOMAIN ms} |->
        LET m == ms[CHOOSE i \in DOMAIN ms : ms[i].machine_id = id]
        IN  [current_time |-> WorkStart,
             current_color |-> IF m.current_setup # "" THEN m.current_setup
                               ELSE "CLEAR",
             orders_today |-> <<>>]]

\* faulty variant: the limit is compared with > instead of >=
AtItemLimitOffByOne(state, m) == Len(state.orders_today) > m.max_items_per_cycle

\* line 222: len(state["orders_today"]) >= machine.max_items_per_cycle
AtItemLimit(state, m) == Len(state.orders_today) >= m.max_items_per_cycle

\* faulty variant: a later machine replaces an earlier one of equal setup
\* time (<= in place of <)
BestMachineLast(compatible, states, order) ==
    LET setup(i) == calculate_setup_time(
                        states[compatible[i].machine_id].current_color, order.color)
        open == {i \in DOMAIN compatible :
                    ~AtItemLimit(states[compatible[i].machine_id], compatible[i])}
    IN  IF open = {} THEN NoMachine
        ELSE compatible[CHOOSE i \in open :
                            /\ \A j \in open : setup(i) <= setup(j)
                            /\ \A j \in open : j > i => setup(j) > setup(i)]

\* faulty variant: machines that cannot finish the order before the end of
\* the work day are passed over when another machine can
BestMachineInWindow(compatible, states, order) ==
    LET setup(i) == calculate_setup_time(
                        states[compatible[i].machine_id].current_color, order.color)
        open == {i \in DOMAIN compatible :
                    ~AtItemLimit(states[compatible[i].machine_id], compatible[i])}
        intime == {i \in open :
                    states[compatible[i].machine_id].current_time + setup(i) * 60
                    + estimate_production_time(order, compatible[i]) <= WorkEnd}
        from == IF intime # {} THEN intime ELSE open
    IN  IF open = {} THEN NoMachine
        ELSE compatible[CHOOSE i \in from :
                            /\ \A j \in from : setup(i) <= setup(j)
                            /\ \A j \in from : j < i => setup(j) > setup(i)]

\* lines 214-227: the first compatible machine below its item limit whose
\* setup time is least (strict <), or NoMachine
BestMachine(compatible, states, order) ==
    LET setup(i) == calculate_setup_time(
                        states[compatible[i].machine_id].current_color, order.color)
        open == {i \in DOMAIN compatible :
                    ~AtItemLimit(states[compatible[i].machine_id], compatible[i])}
    IN  IF open = {} THEN NoMachine
        ELSE compatible[CHOOSE i \in open :
                            /\ \A j \in open : setup(i) <= setup(j)
                            /\ \A j \in open : j < i => setup(j) > setup(i)]

\* faulty variant: the end of the window is taken an hour late
ExceedsWindowLate(end_time) == end_time > WorkEnd + 3600

\* line 242: if end_time > work_end
ExceedsWindow(end_time) == end_time > WorkEnd

\* lines 237-238
StartTime(state, setup_min) == state.current_time + setup_min * 60
EndTime(start_time, order, m) == start_time + estimate_production_time(order, m)

\* faulty variant: the machine's clock is not moved to the end of the slot
AdvanceKeepTime(state, end_time, order) ==
    [current_time |-> state.current_time,
     current_color |-> order.color,
     orders_today |-> Append(state.orders_today, order.order_id)]

\* lines 257-259: the cursor of the machine that took the order
Advance(state, end_time, order) ==
    [current_time |-> end_time,
     current_color |-> order.color,
     orders_today |-> Append(state.orders_today, order.order_id)]

\* format_schedule_json(schedule)["unscheduled"]
format_schedule_json(un) ==
    [i \in DOMAIN un |->
        [order_id |-> un[i].order_id, reason |-> "capacity_exceeded"]]

\* a Schedule: the fields create_schedule fills
Sched(sl, un) == [slots |-> sl, unscheduled_orders |-> un]

\* optimize_schedule, lines 264-274: return schedule
optimize_schedule(schedule) == schedule

-----------------------------------------------------------------------------
(* ProductionScheduler: construction, add_orders, create_schedule *)

\* create_schedule is called on a scheduler of its own, or by the production
\* sub-agent inside FactorySupervisorAgent.invoke
Scheduling == mode \in {"schedule", "invoke"}

SchedIdle ==
    /\ machines = <<>> /\ orders = <<>> /\ s_pc = "off"
    /\ machine_states = <<>> /\ sorted_orders = <<>> /\ slots = <<>>
    /\ unscheduled_orders = <<>> /\ unscheduled_cause = <<>>

\* ProductionScheduler(machines), lines 129-131
NewProductionScheduler ==
    /\ mode = "none"
    /\ mode' = "schedule"
    /\ \E arg \in MachineArgs :
          /\ arg_machines' = arg
          /\ machines' = (IF arg = <<>> THEN MACHINES ELSE arg)
    /\ orders' = <<>>
    /\ s_pc' = "idle"
    /\ UNCHANGED <<machine_states, sorted_orders, slots, unscheduled_orders,
                   unscheduled_cause>>
    /\ UNCHANGED <<callVars, routerVars, distVars, setupVars, supVars, arg_vehicles>>

\* add_orders([o]), lines 133-135; longer lists are added row by row
\* (to the first scheduler: the second one is given the first one's list)
add_orders ==
    /\ mode = "schedule" /\ s_pc = "idle" /\ run = 1
    /\ Len(orders) < MaxOrders
    /\ \E o \in OrderPool : orders' = Append(orders, o)
    /\ UNCHANGED <<machines, s_pc, machine_states, sorted_orders, slots,
                   unscheduled_orders, unscheduled_cause>>
    /\ SchedFrame

\* lines 190-203
CreateScheduleStart ==
    /\ Scheduling /\ s_pc = "idle"
    /\ machine_states' = InitialStates(machines)
    /\ sorted_orders' = sort_orders_for_scheduling(orders)
    /\ slots' = <<>>
    /\ unscheduled_orders' = <<>>
    /\ unscheduled_cause' = <<>>
    /\ s_pc' = "orders"
    /\ UNCHANGED <<machines, orders>>
    /\ SchedFrame

\* the order the for-loop at line 205 is at, and what lines 207-238 compute
\* for it
CurOrder == Head(sorted_orders)
CurCompatible == get_compatible_machines(machines, CurOrder)
CurBest == BestMachine(CurCompatible, machine_states, CurOrder)
CurSetup ==
    calculate_setup_time(machine_states[CurBest.machine_id].current_color,
                         CurOrder.color)
CurStart == StartTime(machine_states[CurBest.machine_id], CurSetup)
CurEnd == EndTime(CurStart, CurOrder, CurBest)

\* faulty variant: the order is skipped without being recorded
RejectDropped(cause) ==
    /\ sorted_orders' = Tail(sorted_orders)
    /\ UNCHANGED <<machines, orders, s_pc, machine_states, slots,
                   unscheduled_orders, unscheduled_cause>>

\* faulty variant: an order that overruns the work window has already moved
\* the cursor of the machine it was tried on
RejectCharged(cause) ==
    /\ unscheduled_orders' = Append(unscheduled_orders, CurOrder)
    /\ unscheduled_cause' = Append(unscheduled_cause, cause)
    /\ sorted_orders' = Tail(sorted_orders)
    /\ machine_states' =
          IF cause = "work_window"
          THEN [machine_states EXCEPT ![CurBest.machine_id] = Advance(@, CurEnd, CurOrder)]
          ELSE machine_states
    /\ UNCHANGED <<machines, orders, s_pc, slots>>

\* schedule.unscheduled_orders.append(order); continue
Reject(cause) ==
    /\ unscheduled_orders' = Append(unscheduled_orders, CurOrder)
    /\ unscheduled_cause' = Append(unscheduled_cause, cause)
    /\ sorted_orders' = Tail(sorted_orders)
    /\ UNCHANGED <<machines, orders, s_pc, machine_states, slots>>

\* faulty variant: the rejected order is also appended to a list the
\* routing call uses
OrderNoCompatibleShared ==
    /\ Scheduling /\ s_pc = "orders" /\ sorted_orders # <<>>
    /\ CurCompatible = <<>>
    /\ Reject("no_compatible_machine")
    /\ unassigned' = Append(unassigned, CurOrder)
    /\ UNCHANGED <<depot, vehicles, shipments, pc, remaining, vqueue, routes,
                   route, nn_remaining, current_location, vehicle>>
    /\ UNCHANGED <<mode, callVars, distVars, setupVars, supVars, argVars>>

\* lines 209-211: no compatible machine
OrderNoCompatible ==
    /\ Scheduling /\ s_pc = "orders" /\ sorted_orders # <<>>
    /\ CurCompatible = <<>>
    /\ Reject("no_compatible_machine")
    /\ SchedFrame

\* lines 229-231: every compatible machine is at its item limit
OrderAtLimit ==
    /\ Scheduling /\ s_pc = "orders" /\ sorted_orders # <<>>
    /\ CurCompatible # <<>>
    /\ CurBest = NoMachine
    /\ Reject("item_limit")
    /\ SchedFrame

\* lines 240-244: the order would end after the work window
OrderExceedsWindow ==
    /\ Scheduling /\ s_pc = "orders" /\ sorted_orders # <<>>
    /\ CurCompatible # <<>>
    /\ CurBest # NoMachine
    /\ ExceedsWindow(CurEnd)
    /\ Reject("work_window")
    /\ SchedFrame

\* faulty variant: the colour of the order is also written back to the
\* Machine object (machine.current_setup = order.color)
OrderCommitKeepsSetup ==
    /\ Scheduling /\ s_pc = "orders" /\ sorted_orders # <<>>
    /\ CurCompatible # <<>>
    /\ CurBest # NoMachine
    /\ ~ExceedsWindow(CurEnd)
    /\ slots' = Append(slots,
                       [machine_id |-> CurBest.machine_id,
                        orders |-> <<CurOrder>>,
                        start_time |-> CurStart,
                        end_time |-> CurEnd,
                        setup_time_min |-> CurSetup])
    /\ machine_states' =
          [machine_states EXCEPT ![CurBest.machine_id] = Advance(@, CurEnd, CurOrder)]
    /\ machines' =
          [k \in DOMAIN machines |->
              IF machines[k].machine_id = CurBest.machine_id
              THEN [machines[k] EXCEPT !.current_setup = CurOrder.color]
              ELSE machines[k]]
    /\ sorted_orders' = Tail(sorted_orders)
    /\ UNCHANGED <<orders, s_pc, unscheduled_orders, unscheduled_cause>>
    /\ SchedFrame

\* lines 246-260: the slot is created and the machine's cursor advances
OrderCommit ==
    /\ Scheduling /\ s_pc = "orders" /\ sorted_orders # <<>>
    /\ CurCompatible # <<>>
    /\ CurBest # NoMachine
    /\ ~ExceedsWindow(CurEnd)
    /\ slots' = Append(slots,
                       [machine_id |-> CurBest.machine_id,
                        orders |-> <<CurOrder>>,
                        start_time |-> CurStart,
                        end_time |-> CurEnd,
                        setup_time_min |-> CurSetup])
    /\ machine_states' =
          [machine_states EXCEPT ![CurBest.machine_id] = Advance(@, CurEnd, CurOrder)]
    /\ sorted_orders' = Tail(sorted_orders)
    /\ UNCHANGED <<machines, orders, s_pc, unscheduled_orders, unscheduled_cause>>
    /\ SchedFrame

\* line 262: return schedule
CreateScheduleReturn ==
    /\ Scheduling /\ s_pc = "orders" /\ sorted_orders = <<>>
    /\ s_pc' = "done"
    /\ UNCHANGED <<machines, orders, machine_states, sorted_orders, slots,
                   unscheduled_orders, unscheduled_cause>>
    /\ SchedFrame

\* the steps of one call of create_schedule
CreateScheduleNext ==
    \/ CreateScheduleStart
    \/ OrderNoCompatible
    \/ OrderAtLimit
    \/ OrderExceedsWindow
    \/ OrderCommit
    \/ CreateScheduleReturn

\* optimize_schedule(schedule) on the schedule create_schedule returned
OptimizeSchedule ==
    /\ mode = "schedule" /\ s_pc = "done"
    /\ passes < MaxPasses
    /\ LET schedule == optimize_schedule(Sched(slots, unscheduled_orders))
       IN  /\ slots' = schedule.slots
           /\ unscheduled_orders' = schedule.unscheduled_orders
    /\ passes' = passes + 1
    /\ UNCHANGED <<machines, orders, s_pc, machine_states, sorted_orders,
                   unscheduled_cause>>
    /\ UNCHANGED <<mode, run, first_result, routerVars, distVars, setupVars, supVars, argVars>>

\* a second ProductionScheduler(machines) with the argument of the first,
\* and add_orders with the first one's list; the first schedule is kept.
\* A second create_schedule on the first scheduler is the same step.
SecondScheduler ==
    /\ mode = "schedule" /\ s_pc = "done" /\ run = 1
    /\ run' = 2
    /\ first_result' = Sched(slots, unscheduled_orders)
    /\ passes' = 0
    /\ s_pc' = "idle"
    /\ machine_states' = <<>> /\ sorted_orders' = <<>> /\ slots' = <<>>
    /\ unscheduled_orders' = <<>> /\ unscheduled_cause' = <<>>
    /\ UNCHANGED <<machines, orders>>
    /\ UNCHANGED <<mode, routerVars, distVars, setupVars, supVars, argVars>>

SchedNext ==
    \/ NewProductionScheduler \/ add_orders \/ CreateScheduleNext
    \/ OptimizeSchedule \/ SecondScheduler

-----------------------------------------------------------------------------
(* Location.distance_to as an operation *)

DistIdle == loc_a = DEPOT /\ loc_b = DEPOT /\ dist_result = NoResult

\* two Location objects are constructed
NewLocations ==
    /\ mode = "none"
    /\ mode' = "distance"
    /\ loc_a' \in Locations /\ loc_b' \in Locations
    /\ dist_result' = NoResult
    /\ UNCHANGED <<callVars, routerVars, schedVars, setupVars, supVars, argVars>>

DistanceTo ==
    /\ mode = "distance" /\ dist_result = NoResult
    /\ dist_result' = <<distance_to(loc_a, loc_b)>>
    /\ UNCHANGED <<loc_a, loc_b>>
    /\ DistFrame

-----------------------------------------------------------------------------
(* ProductionScheduler.calculate_setup_time as an operation *)

\* The sample colours: the two of the table, one outside it, and none
Colors == {"CLEAR", "COLOR", "BLACK", ""}

SetupIdle == arg_from_color = "" /\ arg_to_color = "" /\ setup_result = NoResult

\* the two arguments are chosen
NewColors ==
    /\ mode = "none"
    /\ mode' = "setup"
    /\ arg_from_color' \in Colors /\ arg_to_color' \in Colors
    /\ setup_result' = NoResult
    /\ UNCHANGED <<callVars, routerVars, schedVars, distVars, supVars, argVars>>

CalculateSetupTime ==
    /\ mode = "setup" /\ setup_result = NoResult
    /\ setup_result' = <<calculate_setup_time(arg_from_color, arg_to_color)>>
    /\ UNCHANGED <<arg_from_color, arg_to_color>>
    /\ SetupFrame

-----------------------------------------------------------------------------
(* FactorySupervisorAgent.invoke and the two sub-agents it runs *)

SubAgents == {"ProductionPlanner", "DeliveryOptimizer"}

\* the values of input_data['mode']: the three the CLI offers and one other
Modes == {"all", "production", "delivery", "report"}

\* a sub-agent invoke did not name, one it named, and one that is executing
Absent == [status |-> "absent", data |-> <<>>]
Named == [status |-> "named", data |-> <<>>]
Executing == [status |-> "executing", data |-> <<>>]

\* SubAgentResult(agent_name, status, data) and (agent_name, status, error)
SubAgentResult(status, data) == [status |-> status, data |-> data]

NoResponse == [status |-> "", data |-> <<>>]

SupIdle ==
    /\ sup_pc = "off" /\ sup_mode = ""
    /\ sub_status = [a \in SubAgents |-> Absent]
    /\ response = NoResponse

\* input_data['shipments'] or the rows of input_data['shipments_file']
ShipmentInputs ==
    { <<>>,
      <<Ship("S3", 3000, 2, "ANY", Loc(372, 1272))>>,
      <<Ship("S1", 2000, 3, "AM", Loc(0, 0)),
        Ship("S4", 500, 7, "ANY", Loc(374, 1271))>>,
      <<Ship("S3", 3000, 2, "ANY", Loc(372, 1272)),
        Ship("S2", 6000, 1, "PM", Loc(0, 0)),
        Ship("S4", 500, 7, "ANY", Loc(374, 1271)),
        Ship("S1", 2000, 3, "AM", Loc(0, 0))>> }

\* input_data['orders'] or the rows of input_data['orders_file']; the last
\* list gives the one machine that takes 450 mm more orders than it holds
OrderInputs ==
    { <<>>,
      <<Ord("O1", 500, 10, 1, "CLEAR", 2)>>,
      <<Ord("O3", 300, 4, 2, "CLEAR", 1), Ord("O2", 650, 12, 1, "COLOR", 1)>>,
      <<Ord("O4", 500, 22, 1, "COLOR", 3), Ord("O5", 650, 10, 2, "CLEAR", 1),
        Ord("O1", 500, 10, 1, "CLEAR", 2)>>,
      <<Ord("J1", 450, 1, 1, "CLEAR", 1), Ord("J2", 450, 1, 1, "CLEAR", 1),
        Ord("J3", 450, 1, 1, "COLOR", 1), Ord("J4", 450, 1, 1, "CLEAR", 1),
        Ord("J5", 450, 1, 1, "CLEAR", 1)>> }

\* lines 108-113: the sub-agents the mode names
subagent_names(m) ==
    (IF m \in {"all", "production"} THEN {"ProductionPlanner"} ELSE {})
    \cup (IF m \in {"all", "delivery"} THEN {"DeliveryOptimizer"} ELSE {})

\* ClusterResult.success_count: the sub-agents that returned status success
success_count(st) == Cardinality({a \in SubAgents : st[a].status = "success"})

\* ClusterResult.error_count: the sub-agents that returned status error
error_count(st) == Cardinality({a \in SubAgents : st[a].status = "error"})

\* lines 136-156: result_data, a dict; 'production' and 'delivery' are set
\* only from a result whose status is success
result_data(m, st) ==
    [k \in {"mode", "success_count", "error_count"}
           \cup {"production" : a \in {b \in {"ProductionPlanner"} :
                                          st[b].status = "success"}}
           \cup {"delivery" : a \in {b \in {"DeliveryOptimizer"} :
                                        st[b].status = "success"}} |->
        CASE k = "mode" -> <<m>>
          [] k = "success_count" -> <<success_count(st)>>
          [] k = "error_count" -> <<error_count(st)>>
          [] k = "production" -> <<st["ProductionPlanner"].data>>
          [] k = "delivery" -> <<st["DeliveryOptimizer"].data>>]

\* faulty variant: any failure makes the whole response an error
final_status_strict(successes, errors) ==
    IF errors > 0 THEN "error" ELSE "success"

\* lines 169-190: the status of the response
final_status(successes, errors) ==
    IF errors > 0
    THEN IF successes > 0 THEN "partial_success" ELSE "error"
    ELSE "success"

\* lines 192-197: except Exception: AgentResponse.error(message, duration)
ExceptionResponse == [status |-> "error", data |-> <<>>]

\* invoke, lines 84-128: the date is parsed (fromisoformat raises on a
\* malformed one), the sub-agents are named and the plan is handed to the
\* executor
Invoke ==
    /\ mode = "none"
    /\ mode' = "invoke"
    /\ \E m \in Modes, date_ok \in BOOLEAN :
          /\ sup_mode' = m
          /\ IF date_ok
             THEN /\ sup_pc' = "executing"
                  /\ sub_status' = [a \in SubAgents |->
                        IF a \in subagent_names(m) THEN Named ELSE Absent]
                  /\ UNCHANGED response
             ELSE /\ sup_pc' = "returned"
                  /\ response' = ExceptionResponse
                  /\ UNCHANGED sub_status
    /\ UNCHANGED <<callVars, routerVars, schedVars, distVars, setupVars, argVars>>

\* DeliveryOptimizerSubAgent.execute, lines 42-78: the shipments are loaded
\* (a malformed row or a missing file raises, and the except clause of
\* lines 100-106 returns status error), a DeliveryRouter() is constructed
\* and given them
DeliveryExecuteStart ==
    /\ mode = "invoke" /\ sup_pc = "executing"
    /\ sub_status["DeliveryOptimizer"].status = "named"
    /\ \/ /\ sub_status' = [sub_status EXCEPT
                 !["DeliveryOptimizer"] = SubAgentResult("error", <<>>)]
          /\ UNCHANGED <<depot, vehicles, shipments, pc>>
       \/ /\ sub_status' = [sub_status EXCEPT !["DeliveryOptimizer"] = Executing]
          /\ depot' = DEPOT
          /\ vehicles' = VEHICLES
          /\ shipments' \in ShipmentInputs
          /\ pc' = "idle"
    /\ UNCHANGED <<remaining, vqueue, routes, unassigned, route, nn_remaining,
                   current_location, vehicle>>
    /\ UNCHANGED <<mode, callVars, schedVars, distVars, setupVars,
                   sup_pc, sup_mode, response, argVars>>

\* lines 80-106: optimize_plan on the plan create_plan returned, and the
\* result; an exception inside the call is returned as status error
DeliveryExecuteReturn ==
    /\ mode = "invoke" /\ sup_pc = "executing"
    /\ sub_status["DeliveryOptimizer"].status = "executing"
    /\ pc \in {"done", "error"}
    /\ sub_status' = [sub_status EXCEPT !["DeliveryOptimizer"] =
          IF pc = "done"
          THEN SubAgentResult("success", optimize_plan(Plan(routes, unassigned)))
          ELSE SubAgentResult("error", <<>>)]
    /\ UNCHANGED <<mode, callVars, routerVars, schedVars, distVars, setupVars,
                   sup_pc, sup_mode, response, argVars>>

\* ProductionPlannerSubAgent.execute, lines 42-77: the orders are loaded,
\* a ProductionScheduler() is constructed and given them
ProductionExecuteStart ==
    /\ mode = "invoke" /\ sup_pc = "executing"
    /\ sub_status["ProductionPlanner"].status = "named"
    /\ \/ /\ sub_status' = [sub_status EXCEPT
                 !["ProductionPlanner"] = SubAgentResult("error", <<>>)]
          /\ UNCHANGED <<machines, orders, s_pc>>
       \/ /\ sub_status' = [sub_status EXCEPT !["ProductionPlanner"] = Executing]
          /\ machines' = MACHINES
          /\ orders' \in OrderInputs
          /\ s_pc' = "idle"
    /\ UNCHANGED <<machine_states, sorted_orders, slots, unscheduled_orders,
                   unscheduled_cause>>
    /\ UNCHANGED <<mode, callVars, routerVars, distVars, setupVars,
                   sup_pc, sup_mode, response, argVars>>

\* lines 79-96: optimize_schedule on the schedule create_schedule returned,
\* and the result
ProductionExecuteReturn ==
    /\ mode = "invoke" /\ sup_pc = "executing"
    /\ sub_status["ProductionPlanner"].status = "executing"
    /\ s_pc = "done"
    /\ sub_status' = [sub_status EXCEPT !["ProductionPlanner"] =
          SubAgentResult("success",
                         optimize_schedule(Sched(slots, unscheduled_orders)))]
    /\ UNCHANGED <<mode, callVars, routerVars, schedVars, distVars, setupVars,
                   sup_pc, sup_mode, response, argVars>>

\* invoke, lines 130-197: execute_plan has returned the ClusterResult; the
\* report is built and saved (writing the files may raise) and the response
\* is returned
InvokeReturn ==
    /\ mode = "invoke" /\ sup_pc = "executing"
    /\ \A a \in SubAgents : sub_status[a].status \in {"absent", "success", "error"}
    /\ \E save_ok \in BOOLEAN :
          response' =
             IF save_ok
             THEN [status |-> final_status(success_count(sub_status),
                                           error_count(sub_status)),
                   data |-> result_data(sup_mode, sub_status)]
             ELSE ExceptionResponse
    /\ sup_pc' = "returned"
    /\ UNCHANGED <<mode, callVars, routerVars, schedVars, distVars, setupVars,
                   sup_mode, sub_status, argVars>>

\* after invoke: the routing call of the delivery sub-agent is made again
\* with nothing else running, on a DeliveryRouter() given the same shipments
RouterAlone ==
    /\ mode = "invoke" /\ sup_pc = "returned"
    /\ sub_status["DeliveryOptimizer"].status = "success"
    /\ mode' = "plan"
    /\ run' = 2
    /\ first_result' = sub_status["DeliveryOptimizer"].data
    /\ pc' = "idle"
    /\ remaining' = <<>> /\ vqueue' = <<>> /\ routes' = <<>> /\ unassigned' = <<>>
    /\ route' = EmptyRoute("") /\ nn_remaining' = <<>>
    /\ current_location' = DEPOT /\ vehicle' = NoVehicle
    /\ UNCHANGED <<depot, vehicles, shipments>>
    /\ UNCHANGED <<passes, schedVars, distVars, setupVars, supVars, argVars>>

\* after invoke: the scheduling call of the production sub-agent is made
\* again with nothing else running, on a ProductionScheduler() given the
\* same orders
SchedulerAlone ==
    /\ mode = "invoke" /\ sup_pc = "returned"
    /\ sub_status["ProductionPlanner"].status = "success"
    /\ mode' = "schedule"
    /\ run' = 2
    /\ first_result' = sub_status["ProductionPlanner"].data
    /\ s_pc' = "idle"
    /\ machine_states' = <<>> /\ sorted_orders' = <<>> /\ slots' = <<>>
    /\ unscheduled_orders' = <<>> /\ unscheduled_cause' = <<>>
    /\ UNCHANGED <<machines, orders>>
    /\ UNCHANGED <<passes, routerVars, distVars, setupVars, supVars, argVars>>

\* the steps of the delivery sub-agent and of the production sub-agent
DeliveryExecute == DeliveryExecuteStart \/ CreatePlanNext \/ DeliveryExecuteReturn
ProductionExecute ==
    ProductionExecuteStart \/ CreateScheduleNext \/ ProductionExecuteReturn

SupervisorNext ==
    \/ Invoke
    \/ DeliveryExecute \/ ProductionExecute
    \/ InvokeReturn
    \/ RouterAlone \/ SchedulerAlone

-----------------------------------------------------------------------------
(* The specification *)

\* no constructor was given an argument
ArgsIdle == arg_vehicles = <<>> /\ arg_machines = <<>>

CallIdle == run = 1 /\ first_result = <<>> /\ passes = 0

\* nothing is constructed yet
Init ==
    /\ mode = "none" /\ CallIdle
    /\ RouterIdle /\ SchedIdle /\ DistIdle /\ SetupIdle /\ SupIdle
    /\ ArgsIdle

Next ==
    \/ RouterNext \/ SchedNext
    \/ NewLocations \/ DistanceTo
    \/ NewColors \/ CalculateSetupTime

Spec == Init /\ [][Next]_vars

\* one use of the supervisor: invoke, the two sub-agents, and afterwards
\* either call once more
SupervisorSpec == Init /\ [][SupervisorNext]_vars

-----------------------------------------------------------------------------
(* Vocabulary of the properties *)

\* every stop of every route of the plan, route by route
AllStops == Concat([i \in DOMAIN routes |-> routes[i].stops])

\* every order of every slot, slot by slot
SlotOrders == Concat([i \in DOMAIN slots |-> slots[i].orders])

\* the totals of a route are the sums over its stops and within the
\* capacities of vehicle v
WithinCapacity(rt, v) ==
    /\ rt.total_weight_kg <= v.capacity_kg
    /\ rt.total_pallets <= v.capacity_pallets
    /\ rt.total_weight_kg = SumSeq([i \in DOMAIN rt.stops |-> rt.stops[i].weight_kg])
    /\ rt.total_pallets = SumSeq([i \in DOMAIN rt.stops |-> rt.stops[i].pallets])

\* the vehicle of the router's own fleet a route was built for
BuiltFor(rt) == VehiclesGet(vehicles, rt.vehicle_id)

\* the slots placed on machine id, in assignment order
SlotsOn(id) == SelectSeq(slots, LAMBDA sl : sl.machine_id = id)

\* the for-loop of create_schedule is at an order
AtOrder == mode = "schedule" /\ s_pc = "orders" /\ sorted_orders # <<>>

\* the order at hand goes to unscheduled_orders and gets no slot
CurRejected ==
    /\ unscheduled_orders' = Append(unscheduled_orders, CurOrder)
    /\ slots' = slots

-----------------------------------------------------------------------------
(* C1  Routing coverage *)

\* C1: in the plan create_plan returns, every shipment occurs in the routes'
\* stops and plan.unassigned together exactly as often as it occurs in the
\* input list (so none is in both and none in neither), and the summary's
\* total_shipments + unassigned_shipments is the number of input shipments.
C1_RoutingCoverage ==
    (mode = "plan" /\ pc = "done") =>
        /\ \A x \in ShipmentPool \cup Range(AllStops) \cup Range(unassigned) :
              Count(AllStops, x) + Count(unassigned, x) = Count(shipments, x)
        /\ summary(routes, unassigned).total_shipments
             + summary(routes, unassigned).unassigned_shipments = Len(shipments)

\* a returned plan for a list in which a row is repeated: one copy is a stop
\* of a route, the other is left unassigned
C1_Witness ==
    /\ mode = "plan" /\ pc = "done"
    /\ \E x \in Range(shipments) : Count(AllStops, x) >= 1 /\ Count(unassigned, x) >= 1

-----------------------------------------------------------------------------
(* C2  Routing capacity *)

\* C2: at every step of nearest_neighbor the route under construction, and in
\* every plan every route, has total_weight_kg <= capacity_kg and
\* total_pallets <= capacity_pallets of its vehicle, both totals being the
\* sums over the route's stops.
C2_RoutingCapacity ==
    /\ (mode = "plan" /\ pc = "nn") => WithinCapacity(route, vehicle)
    /\ \A i \in DOMAIN routes : WithinCapacity(routes[i], BuiltFor(routes[i]))

\* inside nearest_neighbor, after a stop was appended, a remaining shipment
\* no longer fits by pallets although it fits by weight
C2_Witness ==
    /\ mode = "plan" /\ pc = "nn" /\ route.stops # <<>>
    /\ \E i \in DOMAIN nn_remaining :
          /\ route.total_weight_kg + nn_remaining[i].weight_kg <= vehicle.capacity_kg
          /\ route.total_pallets + nn_remaining[i].pallets > vehicle.capacity_pallets

-----------------------------------------------------------------------------
(* C3  Scheduling coverage *)

\* C3: in the schedule create_schedule returns, every slot holds exactly one
\* order, and every order occurs in the slots and unscheduled_orders together
\* exactly as often as it occurs in the input list.
C3_SchedulingCoverage ==
    (mode = "schedule" /\ s_pc = "done") =>
        /\ \A i \in DOMAIN slots : Len(slots[i].orders) = 1
        /\ \A x \in OrderPool \cup Range(SlotOrders) \cup Range(unscheduled_orders) :
              Count(SlotOrders, x) + Count(unscheduled_orders, x) = Count(orders, x)

\* a returned schedule with slots on two machines and an unscheduled order
C3_Witness ==
    /\ mode = "schedule" /\ s_pc = "done"
    /\ unscheduled_orders # <<>>
    /\ \E i, j \in DOMAIN slots : slots[i].machine_id # slots[j].machine_id

-----------------------------------------------------------------------------
(* C4  Work window *)

\* C4: every committed slot starts at or after 08:00 and ends at or before
\* 20:00 of the target date, and an order whose computed end on the chosen
\* machine is after 20:00 goes to unscheduled_orders and gets no slot.
C4_WorkWindow ==
    /\ [](\A i \in DOMAIN slots :
             /\ slots[i].start_time >= WorkStart
             /\ slots[i].end_time <= WorkEnd)
    /\ [][(AtOrder /\ CurCompatible # <<>> /\ CurBest # NoMachine /\ CurEnd > WorkEnd)
            => CurRejected]_vars

\* an order was rejected for the work window after a slot had been committed
\* on the same run
C4_Witness ==
    /\ mode = "schedule" /\ slots # <<>>
    /\ \E i \in DOMAIN unscheduled_cause : unscheduled_cause[i] = "work_window"

-----------------------------------------------------------------------------
(* C5  Per-machine non-overlap *)

\* C5: of two slots on the same machine, the one assigned earlier starts
\* strictly earlier and ends at or before the start of the later one.
C5_NoOverlap ==
    \A i, j \in DOMAIN slots :
        (i < j /\ slots[i].machine_id = slots[j].machine_id) =>
            /\ slots[i].start_time < slots[j].start_time
            /\ slots[i].end_time <= slots[j].start_time

\* a machine carries two slots
C5_Witness ==
    \E i, j \in DOMAIN slots : i < j /\ slots[i].machine_id = slots[j].machine_id

-----------------------------------------------------------------------------
(* C6  Per-machine item limit *)

\* C6: no machine ever carries more slots than its max_items_per_cycle, and
\* an order that has a width-compatible machine but whose width-compatible
\* machines all carry max_items_per_cycle slots already goes to
\* unscheduled_orders and gets no slot.
C6_ItemLimit ==
    /\ [](\A k \in DOMAIN machines :
             Len(SlotsOn(machines[k].machine_id)) <= machines[k].max_items_per_cycle)
    /\ [][(/\ AtOrder
           /\ CurCompatible # <<>>
           /\ \A k \in DOMAIN CurCompatible :
                 Len(SlotsOn(CurCompatible[k].machine_id))
                     >= CurCompatible[k].max_items_per_cycle)
            => CurRejected]_vars

\* an order was rejected because its only compatible machines were full,
\* and a machine does carry as many slots as its limit allows
C6_Witness ==
    /\ mode = "schedule"
    /\ \E i \in DOMAIN unscheduled_cause : unscheduled_cause[i] = "item_limit"
    /\ \E k \in DOMAIN machines :
          /\ machines[k].max_items_per_cycle > 0
          /\ Len(SlotsOn(machines[k].machine_id)) = machines[k].max_items_per_cycle

-----------------------------------------------------------------------------
(* C7  Planning always completes with a result *)

\* an upper bound on the number of steps a started call still has to take:
\* the vehicles (orders) the loops have not reached, and for the vehicle at
\* hand the shipments nearest_neighbor may still append
Work ==
    LET n == Len(shipments) + 2
    IN  (IF pc = "idle" THEN 2 + Len(vehicles) * n
         ELSE IF pc = "vehicles" THEN 1 + Len(vqueue) * n
         ELSE IF pc = "nn" THEN 2 + (Len(vqueue) - 1) * n + Len(nn_remaining)
         ELSE 0)
        + (IF s_pc = "idle" THEN 2 + Len(orders)
           ELSE IF s_pc = "orders" THEN 1 + Len(sorted_orders)
           ELSE 0)

-----------------------------------------------------------------------------
(* C8  Reason tags of the unscheduled orders *)

\* C8: in the report of a schedule create_schedule has returned, every
\* unscheduled order's reason tag identifies the cause it was rejected for
\* (no width-compatible machine, item limit reached, work window exceeded):
\* two orders rejected for different causes carry different tags.
C8_ReasonTags ==
    (mode = "schedule" /\ s_pc = "done") =>
        LET report == format_schedule_json(unscheduled_orders)
        IN  \A i, j \in DOMAIN unscheduled_orders :
                unscheduled_cause[i] # unscheduled_cause[j]
                    => report[i].reason # report[j].reason

-----------------------------------------------------------------------------
(* C9  Route cost *)

\* distance * cost_per_km + hours * hourly_rate + fixed_cost (the last only
\* for a route with a stop) at the parameters of vehicle v, in won * TimeScale
CostAt(rt, v) ==
    rt.total_distance_km * AVERAGE_SPEED * v.cost_per_km
    + rt.estimated_time_hours * v.hourly_rate
    + (IF rt.stops # <<>> THEN v.fixed_cost ELSE 0) * TimeScale

\* C9: for every route of a plan create_plan has returned, also when the
\* router was constructed with a fleet of the caller's, Route.cost is
\* total_distance_km * cost_per_km + estimated_time_hours * hourly_rate
\* + fixed_cost at the parameters of the vehicle the route was built for,
\* fixed_cost counted only when the route has a stop.
C9_RouteCost ==
    (mode = "plan" /\ pc = "done") =>
        \A i \in DOMAIN routes : cost(routes[i]) = CostAt(routes[i], BuiltFor(routes[i]))

-----------------------------------------------------------------------------
(* C10  Fallback distance *)

\* a location without coordinates: latitude and longitude both zero
Unset(l) == l.lat = 0 /\ l.lon = 0

\* C10: distance_to returns the fallback 10.0 exactly when one of the two
\* locations is unset (both of its axes zero); for every other pair, a
\* location with one axis zero included, it returns the great-circle
\* distance.
C10_Fallback ==
    dist_result # NoResult =>
        dist_result[1] = (IF Unset(loc_a) \/ Unset(loc_b) THEN FALLBACK_DISTANCE
                          ELSE Haversine(loc_a, loc_b))

-----------------------------------------------------------------------------
(* C11  Setup-time lookup *)

\* C11: calculate_setup_time returns 10 for (CLEAR, CLEAR), 30 for
\* (CLEAR, COLOR), 45 for (COLOR, CLEAR), 20 for (COLOR, COLOR), and 30 for
\* every pair in which a colour is neither CLEAR nor COLOR.
C11_SetupLookup ==
    setup_result # NoResult =>
        setup_result[1] =
            (IF arg_from_color = "CLEAR" /\ arg_to_color = "CLEAR" THEN 10
             ELSE IF arg_from_color = "CLEAR" /\ arg_to_color = "COLOR" THEN 30
             ELSE IF arg_from_color = "COLOR" /\ arg_to_color = "CLEAR" THEN 45
             ELSE IF arg_from_color = "COLOR" /\ arg_to_color = "COLOR" THEN 20
             ELSE 30)

\* the lookup has returned for the pair whose value differs from its
\* mirror image
C11_Witness ==
    /\ mode = "setup" /\ setup_result # NoResult
    /\ arg_from_color = "COLOR" /\ arg_to_color = "CLEAR"

-----------------------------------------------------------------------------
(* C12  Width compatibility *)

\* the machine of the scheduler's list with this id
MachineOf(id) == machines[CHOOSE k \in DOMAIN machines : machines[k].machine_id = id]

\* machine m is available and its width range, bounds included, holds w
TakesWidth(m, w) == m.available /\ m.width_min <= w /\ w <= m.width_max

\* C12: get_compatible_machines(order) is exactly the available machines
\* with width_min <= order.width_mm <= width_max, in machine-list order
\* (width 650 against [400,600], [500,800], [700,1200] gives the second
\* machine only), and no slot of any schedule is on an unavailable machine
\* or on one whose width range does not hold the order's width.
C12_WidthCompatibility ==
    /\ AtOrder =>
          LET w == CurOrder.width_mm
              idx == {k \in DOMAIN machines : TakesWidth(machines[k], w)}
          IN  /\ Len(CurCompatible) = Cardinality(idx)
              /\ \A i \in DOMAIN CurCompatible :
                    \E k \in idx :
                        /\ CurCompatible[i] = machines[k]
                        /\ Cardinality({j \in idx : j < k}) = i - 1
              /\ (machines = MACHINES /\ w = 650) => CurCompatible = <<MACHINES[2]>>
    /\ \A i \in DOMAIN slots :
          TakesWidth(MachineOf(slots[i].machine_id), slots[i].orders[1].width_mm)

\* a schedule was returned by a scheduler that has an unavailable machine
\* whose width range holds the width of an order that got a slot elsewhere,
\* and an order sat exactly on a bound of the range of its machine
C12_Witness ==
    /\ mode = "schedule" /\ s_pc = "done"
    /\ \E i \in DOMAIN slots, k \in DOMAIN machines :
          LET w == slots[i].orders[1].width_mm
          IN  /\ ~machines[k].available
              /\ machines[k].width_min <= w /\ w <= machines[k].width_max
              /\ w = MachineOf(slots[i].machine_id).width_min

-----------------------------------------------------------------------------
(* C13  Determinism *)

-----------------------------------------------------------------------------
(* C14  The fallback-distance scenario *)

\* C14: when every shipment has unset coordinates, a route of k >= 1 stops
\* of the returned plan has total_distance_km = 10 * (k + 1): k legs out and
\* the leg back.  In particular a fleet of one vehicle of 5000 kg and 10
\* pallets with three shipments of 2000 kg gives one route of two stops
\* (4000 kg, 30.0 km) and one unassigned shipment.
C14_FallbackScenario ==
    (/\ mode = "plan" /\ pc = "done"
     /\ \A i \in DOMAIN shipments : Unset(shipments[i].location))
    => /\ \A r \in DOMAIN routes :
              /\ Len(routes[r].stops) >= 1
              /\ routes[r].total_distance_km
                    = FALLBACK_DISTANCE * (Len(routes[r].stops) + 1)
       /\ (/\ Len(vehicles) = 1
           /\ vehicles[1].available
           /\ vehicles[1].capacity_kg = 5000 /\ vehicles[1].capacity_pallets = 10
           /\ Len(shipments) = 3
           /\ \A i \in DOMAIN shipments : shipments[i].weight_kg = 2000)
          => /\ Len(routes) = 1
             /\ Len(routes[1].stops) = 2
             /\ routes[1].total_weight_kg = 4000
             /\ routes[1].total_distance_km = 3 * FALLBACK_DISTANCE
             /\ Len(unassigned) = 1

\* the plan of the scenario has been returned: one vehicle of 5000 kg and 10
\* pallets, three shipments of 2000 kg without coordinates
C14_Witness ==
    /\ mode = "plan" /\ pc = "done"
    /\ Len(vehicles) = 1 /\ vehicles[1].available
    /\ vehicles[1].capacity_kg = 5000 /\ vehicles[1].capacity_pallets = 10
    /\ Len(shipments) = 3
    /\ \A i \in DOMAIN shipments :
          shipments[i].weight_kg = 2000 /\ Unset(shipments[i].location)
    /\ routes # <<>>

-----------------------------------------------------------------------------
(* C15  The optimize pass is the identity *)

\* C15: optimize_plan(p) returns p and optimize_schedule(s) returns s with
\* no field changed: every application of either pass leaves the routes and
\* the unassigned list (the slots and the unscheduled list) as they were, so
\* any number of applications gives what no application gives.
C15_OptimizeIdentity ==
    [][/\ OptimizePlan => Plan(routes', unassigned') = Plan(routes, unassigned)
       /\ OptimizeSchedule
             => Sched(slots', unscheduled_orders') = Sched(slots, unscheduled_orders)]_vars

\* the pass has been applied twice to a plan that has a route of two
\* different stops and an unassigned shipment
C15_Witness ==
    /\ mode = "plan" /\ pc = "done" /\ passes = 2
    /\ unassigned # <<>>
    /\ \E i \in DOMAIN routes :
          Len(routes[i].stops) >= 2 /\ routes[i].stops[1] # routes[i].stops[2]

-----------------------------------------------------------------------------
(* C16  Distance symmetry and identity *)

\* C16: for all locations A and B distance_to(A, B) equals
\* distance_to(B, A), and for every location A whose coordinates are set
\* distance_to(A, A) is 0.
C16_SymmetryIdentity ==
    dist_result # NoResult =>
        /\ dist_result[1] = distance_to(loc_b, loc_a)
        /\ (loc_a = loc_b /\ ~Unset(loc_a)) => dist_result[1] = 0

-----------------------------------------------------------------------------
(* C17  Time-window priority in routing *)

\* the list is in priority order: AM before PM before ANY
InWindowOrder(s) ==
    \A i, j \in DOMAIN s : i < j => TimeWindowRank(s[i]) <= TimeWindowRank(s[j])

\* C17: create_plan takes the shipments in the order AM, PM, ANY, heavier
\* first within a window (the pool it works from is in that order), so
\* that in every route of the returned plan the stops are in priority
\* order: no PM or ANY stop before an AM stop, no ANY stop before a PM stop.
C17_TimeWindowPriority ==
    /\ (mode = "plan" /\ pc \in {"vehicles", "nn", "done"}) =>
          \A i, j \in DOMAIN remaining : i < j => ShipmentKeyLE(remaining[i], remaining[j])
    /\ (mode = "plan" /\ pc = "done") =>
          \A r \in DOMAIN routes : InWindowOrder(routes[r].stops)

-----------------------------------------------------------------------------
(* C18  The nearest-neighbour step *)

\* shipment s still fits the route under construction: weight and pallets
\* both stay within the capacity of the vehicle
StillFits(s) ==
    /\ route.total_weight_kg + s.weight_kg <= vehicle.capacity_kg
    /\ route.total_pallets + s.pallets <= vehicle.capacity_pallets

\* C18: every step of nearest_neighbor appends one shipment of the pool
\* that still fits (weight and pallets) and is nearest to the current
\* position among those that fit, the first of the pool among several
\* equally near; the shipment leaves the pool, the current position becomes
\* its location and the leg to it is added to total_distance_km.
C18_NearestStep ==
    [][NearestNeighborStep =>
        \E k \in DOMAIN nn_remaining :
            LET s == nn_remaining[k]
                d(x) == distance_to(current_location, x.location)
            IN  /\ StillFits(s)
                /\ \A j \in DOMAIN nn_remaining :
                      StillFits(nn_remaining[j]) =>
                          /\ d(s) <= d(nn_remaining[j])
                          /\ j < k => d(nn_remaining[j]) > d(s)
                /\ route'.stops = Append(route.stops, s)
                /\ nn_remaining' = SubSeq(nn_remaining, 1, k - 1)
                                    \o SubSeq(nn_remaining, k + 1, Len(nn_remaining))
                /\ current_location' = s.location
                /\ route'.total_distance_km = route.total_distance_km + d(s)]_vars

\* after the first step of a route: the stop taken was as near to the depot
\* as a different shipment that also fitted and is still in the pool, and a
\* third one that fitted was farther away
C18_Witness ==
    /\ mode = "plan" /\ pc = "nn" /\ Len(route.stops) = 1
    /\ LET first == route.stops[1]
           d(x) == distance_to(depot, x.location)
           fitted(x) == /\ x.weight_kg <= vehicle.capacity_kg
                        /\ x.pallets <= vehicle.capacity_pallets
       IN  /\ \E k \in DOMAIN nn_remaining :
                 /\ nn_remaining[k] # first /\ fitted(nn_remaining[k])
                 /\ d(nn_remaining[k]) = d(first)
           /\ \E k \in DOMAIN nn_remaining :
                 fitted(nn_remaining[k]) /\ d(nn_remaining[k]) > d(first)

-----------------------------------------------------------------------------
(* C19  Machine selection *)

\* the machines, by position in the machine list, that take the width of
\* the order at hand and carry fewer slots than their item limit
OpenFor(w) ==
    {k \in DOMAIN machines :
        /\ TakesWidth(machines[k], w)
        /\ Len(SlotsOn(machines[k].machine_id)) < machines[k].max_items_per_cycle}

\* the setup time on machine k for the order at hand
SetupOn(k) ==
    calculate_setup_time(machine_states[machines[k].machine_id].current_color,
                         CurOrder.color)

\* C19: for each order that has a width-compatible machine below its item
\* limit, create_schedule picks among those machines one whose setup time
\* from its current colour to the order's colour is least, the first in the
\* machine list among several of least setup time; a slot that is created
\* is on the machine picked.
C19_MachineSelection ==
    /\ [](AtOrder =>
            LET open == OpenFor(CurOrder.width_mm)
            IN  open # {} =>
                    \E k \in open :
                        /\ CurBest = machines[k]
                        /\ \A j \in open : SetupOn(k) <= SetupOn(j)
                        /\ \A j \in open : j < k => SetupOn(j) > SetupOn(k))
    /\ [][OrderCommit =>
            /\ Len(slots') = Len(slots) + 1
            /\ slots'[Len(slots')].machine_id = CurBest.machine_id]_vars

\* a schedule was returned in which an order has its slot on the second
\* machine of the list although the first one, still without any slot, takes
\* its width too
C19_Witness ==
    /\ mode = "schedule" /\ s_pc = "done"
    /\ Len(machines) >= 2
    /\ SlotsOn(machines[1].machine_id) = <<>>
    /\ machines[1].max_items_per_cycle > 0
    /\ \E i \in DOMAIN slots :
          /\ slots[i].machine_id = machines[2].machine_id
          /\ TakesWidth(machines[1], slots[i].orders[1].width_mm)

-----------------------------------------------------------------------------
(* C20  Slot timing and colour tracking *)

\* the colour a machine starts the day in: the one carried over, or CLEAR
InitialColor(m) == IF m.current_setup = "" THEN "CLEAR" ELSE m.current_setup

\* slot n of the slots sl of machine m starts `setup` after `from_time`,
\* lasts the production time of its order, and records the setup used
TimedFrom(sl, n, m, from_time, from_color) ==
    LET setup == calculate_setup_time(from_color, sl[n].orders[1].color)
    IN  /\ sl[n].start_time = from_time + setup * 60
        /\ sl[n].end_time = sl[n].start_time + estimate_production_time(sl[n].orders[1], m)
        /\ sl[n].setup_time_min = setup

\* C20: on each machine the first slot starts at the start of the work day
\* plus setup(initial colour, order colour), the initial colour being the
\* machine's carried-over setup colour or CLEAR when it has none; every
\* later slot starts at the end of the previous slot of that machine plus
\* setup(previous order's colour, this order's colour); every slot ends its
\* order's production time after its start, and its setup_time_min is the
\* setup value used.
C20_SlotTiming ==
    mode = "schedule" =>
        \A k \in DOMAIN machines :
            LET m == machines[k]
                sl == SlotsOn(m.machine_id)
            IN  \A n \in DOMAIN sl :
                    IF n = 1
                    THEN TimedFrom(sl, n, m, WorkStart, InitialColor(m))
                    ELSE TimedFrom(sl, n, m, sl[n - 1].end_time,
                                   sl[n - 1].orders[1].color)

\* a schedule was returned in which a machine that carried over COLOR got a
\* CLEAR order as its first slot and a machine got a second slot
C20_Witness ==
    /\ mode = "schedule" /\ s_pc = "done"
    /\ \E k \in DOMAIN machines :
          LET sl == SlotsOn(machines[k].machine_id)
          IN  /\ machines[k].current_setup = "COLOR"
              /\ sl # <<>> /\ sl[1].orders[1].color = "CLEAR"
    /\ \E k \in DOMAIN machines : Len(SlotsOn(machines[k].machine_id)) >= 2

-----------------------------------------------------------------------------
(* C21  No retry on another machine *)

\* when the order at hand would end on machine k
EndOn(k) ==
    machine_states[machines[k].machine_id].current_time + SetupOn(k) * 60
    + estimate_production_time(CurOrder, machines[k])

\* machine k is the one chosen for the order at hand: the first of least
\* setup time among the machines that take its width below their item limit
Chosen(k) ==
    LET open == OpenFor(CurOrder.width_mm)
    IN  /\ k \in open
        /\ \A j \in open : SetupOn(k) <= SetupOn(j)
        /\ \A j \in open : j < k => SetupOn(j) > SetupOn(k)

\* C21: when the machine chosen for an order (least setup time, below its
\* item limit) cannot finish the order before the end of the work day, the
\* order goes to unscheduled_orders at once and gets no slot, whether or not
\* another compatible machine below its limit could finish it in time.
C21_NoRetry ==
    [][\A k \in DOMAIN machines :
          (AtOrder /\ Chosen(k) /\ EndOn(k) > WorkEnd) => CurRejected]_vars

\* no slot was committed, so every machine is as it was at the start; an
\* order was rejected for the work window although a machine that takes its
\* width would have finished it in time
C21_Witness ==
    /\ mode = "schedule" /\ s_pc = "done" /\ slots = <<>>
    /\ \E i \in DOMAIN unscheduled_orders :
          /\ unscheduled_cause[i] = "work_window"
          /\ \E k \in DOMAIN machines :
                /\ TakesWidth(machines[k], unscheduled_orders[i].width_mm)
                /\ machines[k].max_items_per_cycle > 0
                /\ WorkStart
                   + 60 * calculate_setup_time(InitialColor(machines[k]),
                                               unscheduled_orders[i].color)
                   + estimate_production_time(unscheduled_orders[i], machines[k])
                      <= WorkEnd

-----------------------------------------------------------------------------
(* C22  Scheduling order *)

\* order a comes strictly before order b: higher priority, or the same
\* priority and an earlier due date, or the same of both and CLEAR against
\* another colour
Before(a, b) ==
    \/ a.priority > b.priority
    \/ a.priority = b.priority /\ a.due_date < b.due_date
    \/ /\ a.priority = b.priority /\ a.due_date = b.due_date
       /\ a.color = "CLEAR" /\ b.color # "CLEAR"

\* t is s in the scheduling order, orders that are equal on the three keys
\* kept in the order of s
IsSchedulingOrder(t, s) ==
    /\ Len(t) = Len(s)
    /\ \E p \in [DOMAIN t -> DOMAIN s] :
          /\ \A i, j \in DOMAIN t : i # j => p[i] # p[j]
          /\ \A i \in DOMAIN t : t[i] = s[p[i]]
          /\ \A i, j \in DOMAIN t :
                i < j => \/ Before(t[i], t[j])
                         \/ ~Before(t[j], t[i]) /\ p[i] < p[j]

\* a is b with some elements left out
RECURSIVE IsSubsequence(_, _)
IsSubsequence(a, b) ==
    IF a = <<>> THEN TRUE
    ELSE IF b = <<>> THEN FALSE
    ELSE IF Head(a) = Head(b) THEN IsSubsequence(Tail(a), Tail(b))
    ELSE IsSubsequence(a, Tail(b))

\* C22: create_schedule considers the orders in the order of
\* sort_orders_for_scheduling, which is: descending priority, then ascending
\* due date, then CLEAR before the other colours, orders equal on the three
\* keys in input order; the orders not yet considered are the rest of that
\* list, and the slot list and the unscheduled list are each a subsequence
\* of it.
C22_SchedulingOrder ==
    (mode = "schedule" /\ s_pc \in {"orders", "done"}) =>
        LET t == sort_orders_for_scheduling(orders)
        IN  /\ IsSchedulingOrder(t, orders)
            /\ sorted_orders = SubSeq(t, Len(t) - Len(sorted_orders) + 1, Len(t))
            /\ IsSubsequence(SlotOrders, t)
            /\ IsSubsequence(unscheduled_orders, t)

\* a schedule was returned for an input in which a later order had to move
\* ahead of an earlier one and two different orders were equal on the three
\* keys; it has slots and an unscheduled order
C22_Witness ==
    /\ mode = "schedule" /\ s_pc = "done"
    /\ slots # <<>> /\ unscheduled_orders # <<>>
    /\ \E i, j \in DOMAIN orders : i < j /\ Before(orders[j], orders[i])
    /\ \E i, j \in DOMAIN orders :
          /\ orders[i] # orders[j]
          /\ ~Before(orders[i], orders[j]) /\ ~Before(orders[j], orders[i])

-----------------------------------------------------------------------------
(* C23  Vehicle order and route list *)

\* the position of vehicle v in the fleet
FleetIndex(v) == CHOOSE k \in DOMAIN vehicles : vehicles[k] = v

\* vehicle a is offered the pool before vehicle b: larger weight capacity,
\* or the same capacity and earlier in the fleet
OfferedBefore(a, b) ==
    \/ a.capacity_kg > b.capacity_kg
    \/ a.capacity_kg = b.capacity_kg /\ FleetIndex(a) < FleetIndex(b)

\* C23: create_plan offers the remaining pool to the vehicles in descending
\* order of weight capacity and builds at most one route per vehicle; the
\* routes of the returned plan are, in that order, routes of different
\* available vehicles with at least one stop each (none for an unavailable
\* vehicle, none without stops), and a vehicle that was given a stop has its
\* route in the plan.
C23_VehicleOrder ==
    /\ []((mode = "plan" /\ pc \in {"vehicles", "nn"}) =>
            /\ \A i, j \in DOMAIN vqueue : i < j => OfferedBefore(vqueue[i], vqueue[j])
            /\ \A r \in DOMAIN routes, i \in DOMAIN vqueue :
                  (pc = "nn" => i > 1) => OfferedBefore(BuiltFor(routes[r]), vqueue[i])
            /\ (pc = "nn" /\ route.stops # <<>>) =>
                  (Head(vqueue).available /\ route.vehicle_id = Head(vqueue).vehicle_id))
    /\ []((mode = "plan" /\ pc \in {"vehicles", "nn", "done"}) =>
            /\ \A r \in DOMAIN routes :
                  /\ BuiltFor(routes[r]) # NoVehicle
                  /\ BuiltFor(routes[r]).available
                  /\ routes[r].stops # <<>>
            /\ \A r1, r2 \in DOMAIN routes :
                  r1 < r2 => OfferedBefore(BuiltFor(routes[r1]), BuiltFor(routes[r2])))
    /\ [][(NearestNeighborReturn /\ route'.stops # <<>>)
            => routes' = Append(routes, route')]_vars

\* a plan of two routes was returned by a router whose largest vehicle is
\* not the first of its fleet
C23_Witness ==
    /\ mode = "plan" /\ pc = "done"
    /\ Len(routes) >= 2
    /\ routes[1].vehicle_id # vehicles[1].vehicle_id

-----------------------------------------------------------------------------
(* C24  No backtracking, single evaluation *)

\* list a is the beginning of list b
IsPrefix(a, b) == Len(a) <= Len(b) /\ a = SubSeq(b, 1, Len(a))

-----------------------------------------------------------------------------
(* C25 *)

\* the sub-agents that returned status s
Returned(s) == {a \in SubAgents : sub_status[a].status = s}

\* invoke returned through its except clause
ByException == sup_pc = "returned" /\ DOMAIN response.data = {}

-----------------------------------------------------------------------------
(* C26 *)

-----------------------------------------------------------------------------
(* C27 *)

\* C27: a step of create_schedule that sends the order at hand to
\* unscheduled_orders, on any of the three branches, leaves every machine's
\* cursor (time, colour, orders of the day) as it was and adds no slot; and
\* at every point of the call each cursor is accounted for by the slots on
\* its machine alone: as many orders as slots, the time and colour of the
\* last slot, or the start of work and the initial colour.
C27_FailedPlacementFrame ==
    /\ [][(AtOrder /\ Len(unscheduled_orders') = Len(unscheduled_orders) + 1) =>
             /\ unscheduled_orders' = Append(unscheduled_orders, CurOrder)
             /\ machine_states' = machine_states
             /\ slots' = slots]_vars
    /\ []((mode = "schedule" /\ s_pc \in {"orders", "done"}) =>
             \A k \in DOMAIN machines :
                LET id == machines[k].machine_id
                    on == SlotsOn(id)
                    st == machine_states[id]
                IN  /\ Len(st.orders_today) = Len(on)
                    /\ st.current_time =
                          (IF on = <<>> THEN WorkStart ELSE on[Len(on)].end_time)
                    /\ st.current_color =
                          (IF on = <<>> THEN InitialColor(machines[k])
                           ELSE on[Len(on)].orders[1].color))

\* a schedule with a slot and two orders rejected on different branches
C27_Witness ==
    /\ mode = "schedule" /\ s_pc = "done"
    /\ slots # <<>>
    /\ Cardinality(Range(unscheduled_cause)) >= 2

-----------------------------------------------------------------------------
(* C28 *)

\* the stops of the route of vehicle v in the plan, <<>> if it has none
LoadOf(v) ==
    IF \E r \in DOMAIN routes : routes[r].vehicle_id = v.vehicle_id
    THEN routes[CHOOSE r \in DOMAIN routes : routes[r].vehicle_id = v.vehicle_id].stops
    ELSE <<>>

\* C28: in the plan create_plan returns, no unassigned shipment fits into
\* what is left of any available vehicle: added to the stops of the
\* vehicle's route (to nothing, if the vehicle has no route) it exceeds the
\* vehicle's weight capacity or its pallet capacity.
C28_RoutesMaximal ==
    (mode = "plan" /\ pc = "done") =>
        \A i \in DOMAIN unassigned : \A k \in DOMAIN vehicles :
            vehicles[k].available =>
                LET load == LoadOf(vehicles[k])
                    kg == SumSeq([n \in DOMAIN load |-> load[n].weight_kg])
                    pallets == SumSeq([n \in DOMAIN load |-> load[n].pallets])
                IN  \/ kg + unassigned[i].weight_kg > vehicles[k].capacity_kg
                    \/ pallets + unassigned[i].pallets > vehicles[k].capacity_pallets

\* a plan with a shipment left over, a vehicle with a route, and an
\* available vehicle that got no route
C28_Witness ==
    /\ mode = "plan" /\ pc = "done"
    /\ unassigned # <<>>
    /\ routes # <<>>
    /\ \E k \in DOMAIN vehicles : vehicles[k].available /\ LoadOf(vehicles[k]) = <<>>

-----------------------------------------------------------------------------
(* C29 *)

\* C29: no step of create_plan (or of optimize_plan) changes the router's
\* shipment list, its fleet or its depot, and no step of create_schedule (or
\* of optimize_schedule) changes the scheduler's order list or its machines,
\* carried-over setup colours included; and when the call is made a second
\* time, its inputs are those of the first call and its result equals the
\* first result.
C29_InputsUnchanged ==
    /\ [][(CreatePlanNext \/ OptimizePlan) =>
             UNCHANGED <<shipments, vehicles, depot>>]_vars
    /\ [][(CreateScheduleNext \/ OptimizeSchedule) =>
             UNCHANGED <<orders, machines>>]_vars
    /\ [][SecondRouter =>
             /\ UNCHANGED <<shipments, vehicles, depot>>
             /\ first_result' = Plan(routes, unassigned)]_vars
    /\ [][SecondScheduler =>
             /\ UNCHANGED <<orders, machines>>
             /\ first_result' = Sched(slots, unscheduled_orders)]_vars
    /\ []((mode = "plan" /\ run = 2 /\ pc = "done") =>
             /\ first_result.routes = routes
             /\ first_result.unassigned = unassigned)
    /\ []((mode = "schedule" /\ run = 2 /\ s_pc = "done") =>
             /\ first_result.slots = slots
             /\ first_result.unscheduled_orders = unscheduled_orders)

\* the second call has returned a schedule in which a machine that carried
\* over COLOR was given a CLEAR order, and the machine still carries COLOR
C29_Witness ==
    /\ mode = "schedule" /\ run = 2 /\ s_pc = "done"
    /\ \E k \in DOMAIN machines :
          /\ machines[k].current_setup = "COLOR"
          /\ SlotsOn(machines[k].machine_id) # <<>>
          /\ SlotsOn(machines[k].machine_id)[1].orders[1].color = "CLEAR"

-----------------------------------------------------------------------------
(* C30 *)

\* C30: when the fleet passed to DeliveryRouter holds no available vehicle
\* (all flagged unavailable, or none at all), the returned plan has no route
\* and every shipment is unassigned; when the machine list passed to
\* ProductionScheduler holds no available machine, the returned schedule has
\* no slot and every order is unscheduled.
C30_NoUsableResource ==
    /\ (/\ mode = "plan" /\ pc = "done"
        /\ \A k \in DOMAIN arg_vehicles : ~arg_vehicles[k].available) =>
          /\ routes = <<>>
          /\ Len(unassigned) = Len(shipments)
          /\ \A s \in Range(shipments) : Count(unassigned, s) = Count(shipments, s)
    /\ (/\ mode = "schedule" /\ s_pc = "done"
        /\ \A k \in DOMAIN arg_machines : ~arg_machines[k].available) =>
          /\ slots = <<>>
          /\ Len(unscheduled_orders) = Len(orders)
          /\ \A o \in Range(orders) :
                Count(unscheduled_orders, o) = Count(orders, o)

=============================================================================
